---- MODULE Spec2Model ----
(***************************************************************************)
(* Model of the numeric helpers of create_tiff/utils/tools.py and of the   *)
(* ground-control-point construction of create_tiff/outputs/files.py.      *)
(*                                                                         *)
(* Numbers.  Coordinates and angles are whole degrees, wind speeds whole   *)
(* m/s.  Values of sin, cos and of the wind components are fixed point     *)
(* with three decimals; rounding to that grid plays the part that rounding *)
(* to the nearest double plays in the code.  NaN is one reserved value     *)
(* outside every range used.  A definition marked "variant" is the code    *)
(* with one plausible slip, kept to show that a property tells them apart. *)
(*                                                                         *)
(* State.  A helper has no state of its own: the state is the caller's     *)
(* arrays (lon, lat), the helper called last (op), the arguments it was    *)
(* given (arg), what it returned (ret), the exception it raised (err) and  *)
(* the number of longitude_fix calls made (nfix).  mem is the caller's     *)
(* memory when helpers are called one after another, tiff what one         *)
(* nc_to_tiff run did outside the process, in order, and wps one WPS       *)
(* process instance.  Each family of operations has its own specification. *)
(***************************************************************************)
EXTENDS Integers, Sequences, FiniteSets

VARIABLES op, lon, lat, nfix, arg, ret, err, mem, tiff, wps

vars == <<op, lon, lat, nfix, arg, ret, err, mem, tiff, wps>>

\* the parts of the state that the numeric helpers have no access to
others == <<mem, tiff, wps>>

Idle ==
  /\ mem = <<>>
  /\ tiff = <<>>
  /\ wps = <<>>

NaN == -99999

\* ------------------------------------------------------------------ bounds
MaxRows == 2
MaxCols == 2
MaxFix == 2
MaxBuoySamples == 2
MaxDirSamples == 4
MaxTimes == 2

\* ------------------------------------------------------- grids and fields
LonStarts == {-190, -10, 0, 170, 175, 355, 535}
LatStarts == {50, 60}

\* lon/lat grid of shape (nr, nc) with 10 degree cells: longitude grows with
\* the column, latitude falls with the row
LonGrid(nr, nc, x0) == [r \in 1..nr |-> [c \in 1..nc |-> x0 + (c - 1) * 10]]
LatGrid(nr, nc, y0) == [r \in 1..nr |-> [c \in 1..nc |-> y0 - (r - 1) * 10]]

\* the 2 x 2 grid of the corner mapping scenario
ExampleLon == << <<0, 1>>, <<0, 1>> >>
ExampleLat == << <<1, 1>>, <<0, 0>> >>

\* an array without elements
EmptyArray == <<>>

Grids ==
  {<<LonGrid(nr, nc, x0), LatGrid(nr, nc, y0)>> :
      nr \in 1..MaxRows, nc \in 1..MaxCols, x0 \in LonStarts, y0 \in LatStarts}
  \cup {<<ExampleLon, ExampleLat>>}
  \cup {<<EmptyArray, EmptyArray>>}

NRows(a) == Len(a)
NCols(a) == IF Len(a) = 0 THEN 0 ELSE Len(a[1])

\* fields on a grid of shape (nr, nc)
RampField(nr, nc) == [r \in 1..nr |-> [c \in 1..nc |-> (r - 1) * nc + c]]
FlatField(nr, nc) == [r \in 1..nr |-> [c \in 1..nc |-> 5]]
DirField(nr, nc) == [r \in 1..nr |-> [c \in 1..nc |-> 45 * ((r - 1) * nc + c)]]

\* bounding boxes [lon1, lon2, lat1, lat2]; min > max is not excluded
LonBounds == {-10, 0, 10}
LatBounds == {50, 60}
Boxes == {<<a, b, c, d>> : a \in LonBounds, b \in LonBounds,
                           c \in LatBounds, d \in LatBounds}

\* ---------------------------------------------------------- longitude_fix
\* variant: wraps from 180 on
LongitudeFixWrapAll(a) ==
  [r \in 1..Len(a) |-> [c \in 1..Len(a[r]) |->
      IF a[r][c] >= 180 THEN a[r][c] - 360 ELSE a[r][c]]]

\* lon[np.where(lon > 180)] -= 360, element by element, one pass
LongitudeFix(a) ==
  [r \in 1..Len(a) |-> [c \in 1..Len(a[r]) |->
      IF a[r][c] > 180 THEN a[r][c] - 360 ELSE a[r][c]]]

longitude_fix ==
  /\ op \in {"none", "longitude_fix"}
  /\ nfix < MaxFix
  /\ op' = "longitude_fix"
  /\ arg' = [lon |-> lon]
  /\ lon' = LongitudeFix(lon)
  /\ nfix' = nfix + 1
  /\ ret' = "None"
  /\ err' = "none"
  /\ UNCHANGED <<lat, others>>

\* ------------------------------------------------------ region selection
\* the index pairs of an (nr, nc) array in the order np.where lists them
RowMajor(nr, nc) ==
  [k \in 1..(nr * nc) |-> <<((k - 1) \div nc) + 1, ((k - 1) % nc) + 1>>]

\* variant: upper longitude bound excluded
InRegionOpenMax(x, y, coords) ==
  /\ x >= coords[1]
  /\ x < coords[2]
  /\ y >= coords[3]
  /\ y <= coords[4]

\* (lon>=coords[0]) & (lon<=coords[1]) & (lat>=coords[2]) & (lat<=coords[3])
InRegion(x, y, coords) ==
  /\ x >= coords[1]
  /\ x <= coords[2]
  /\ y >= coords[3]
  /\ y <= coords[4]

\* ind = np.where(mask): the cells of the mask, row by row
RegionWhere(lo, la, coords) ==
  LET Test(p) == InRegion(lo[p[1]][p[2]], la[p[1]][p[2]], coords)
  IN  SelectSeq(RowMajor(NRows(lo), NCols(lo)), Test)

\* np.append([], field[ind])
Take(field, ind) == [k \in 1..Len(ind) |-> field[ind[k][1]][ind[k][2]]]

CollectRegionWspd(lo, la, wspd, coords) == Take(wspd, RegionWhere(lo, la, coords))

collect_region_wspd ==
  /\ op \in {"none", "longitude_fix"}
  /\ \E coords \in Boxes :
     \E wspd \in {RampField(NRows(lon), NCols(lon)), FlatField(NRows(lon), NCols(lon))} :
        /\ arg' = [lon |-> lon, lat |-> lat, wspd |-> wspd, coords |-> coords]
        /\ ret' = CollectRegionWspd(lon, lat, wspd, coords)
  /\ op' = "collect_region_wspd"
  /\ err' = "none"
  /\ UNCHANGED <<lon, lat, nfix, others>>

\* variant: a second mask, not the speed's, selects the direction
RegionWhereDir(lo, la, coords) ==
  LET Test(p) == InRegionOpenMax(lo[p[1]][p[2]], la[p[1]][p[2]], coords)
  IN  SelectSeq(RowMajor(NRows(lo), NCols(lo)), Test)

CollectDirRemasked(lo, la, wdir, coords) == Take(wdir, RegionWhereDir(lo, la, coords))

\* wdir[ind], with the ind that wspd[ind] used
CollectDir(lo, la, wdir, coords) == Take(wdir, RegionWhere(lo, la, coords))

CollectRegionWspdWdir(lo, la, wspd, wdir, coords) ==
  <<Take(wspd, RegionWhere(lo, la, coords)), CollectDir(lo, la, wdir, coords)>>

collect_region_wspdwdir ==
  /\ op \in {"none", "longitude_fix"}
  /\ \E coords \in Boxes :
     \E wspd \in {RampField(NRows(lon), NCols(lon)), FlatField(NRows(lon), NCols(lon))} :
        LET wdir == DirField(NRows(lon), NCols(lon)) IN
        /\ arg' = [lon |-> lon, lat |-> lat, wspd |-> wspd, wdir |-> wdir,
                   coords |-> coords]
        /\ ret' = CollectRegionWspdWdir(lon, lat, wspd, wdir, coords)
  /\ op' = "collect_region_wspdwdir"
  /\ err' = "none"
  /\ UNCHANGED <<lon, lat, nfix, others>>

\* ------------------------------------------- nc_to_tiff: the four corners
\* variant: first row taken for pixel row 0
CornersTopFirst(a) ==
  <<a[1][1], a[1][NCols(a)], a[NRows(a)][1], a[NRows(a)][NCols(a)]>>

\* a[-1, 0], a[-1, -1], a[0, 0], a[0, -1]
Corners(a) ==
  <<a[NRows(a)][1], a[NRows(a)][NCols(a)], a[1][1], a[1][NCols(a)]>>

\* the -gcp arguments of the gdal_translate command: pixel, line, x, y, elevation
GridCornerGcps(lo, la) ==
  LET x == Corners(lo)
      y == Corners(la)
      nx == NCols(lo) - 1
      ny == NRows(lo) - 1
  IN  << <<0, 0, x[1], y[1], 0>>,
         <<nx, 0, x[2], y[2], 0>>,
         <<0, ny, x[3], y[3], 0>>,
         <<nx, ny, x[4], y[4], 0>> >>

\* outfile1 = './tmp.tiff'
TmpTiff == "./tmp.tiff"

\* command = '...' % (...): one string
GdalTranslateCommand ==
  [kind |-> "str", tool |-> "gdal_translate", reads |-> "ncfile", writes |-> TmpTiff]

\* command1 = '...', (...): a pair of the format string and its arguments
GdalWarpCommand ==
  [kind |-> "tuple", tool |-> "gdalwarp", reads |-> TmpTiff, writes |-> "outfile"]

\* 'Command: %s' % command raises TypeError when command is a pair: one %s
\* for two values
RunCommandError(command) == IF command.kind = "str" THEN "none" ELSE "TypeError"

\* what a call of run_command does outside the process, in order: the tool
\* is started, and it leaves its output file or not (its exit status is not
\* looked at)
RunCommand(command, made) ==
  IF RunCommandError(command) # "none"
  THEN <<>>
  ELSE <<[what |-> "run", subject |-> command.tool]>>
       \o (IF made THEN <<[what |-> "create", subject |-> command.writes]>> ELSE <<>>)

\* os.path.exists(path) after the events of log
RECURSIVE Exists(_, _)
Exists(path, log) ==
  IF log = <<>> THEN FALSE
  ELSE LET e == log[Len(log)]
       IN  IF e.subject = path /\ e.what = "create" THEN TRUE
           ELSE IF e.subject = path /\ e.what = "remove" THEN FALSE
           ELSE Exists(path, SubSeq(log, 1, Len(log) - 1))

\* the statements of nc_to_tiff after the command is built: an exception of
\* run_command leaves the function at once
NcToTiffRun(made1, made2) ==
  LET e1 == RunCommandError(GdalTranslateCommand)
      log1 == RunCommand(GdalTranslateCommand, made1)
      e2 == RunCommandError(GdalWarpCommand)
      log2 == log1 \o RunCommand(GdalWarpCommand, made2)
  IN  IF e1 # "none" THEN [log |-> <<>>, err |-> e1]
      ELSE IF e2 # "none" THEN [log |-> log1, err |-> e2]
      ELSE [log |-> log2 \o (IF Exists(TmpTiff, log2)
                              THEN <<[what |-> "remove", subject |-> TmpTiff]>>
                              ELSE <<>>),
            err |-> "none"]

\* the product read has at least one cell
nc_to_tiff ==
  /\ op \in {"none", "longitude_fix"}
  /\ lon # EmptyArray
  /\ op' = "nc_to_tiff"
  /\ arg' = [lon |-> lon, lat |-> lat]
  /\ ret' = GridCornerGcps(lon, lat)
  /\ \E made1 \in BOOLEAN, made2 \in BOOLEAN :
        /\ tiff' = NcToTiffRun(made1, made2).log
        /\ err' = NcToTiffRun(made1, made2).err
  /\ UNCHANGED <<lon, lat, nfix, mem, wps>>

\* --------------------------------------------------- specification: grids
InitGrid ==
  /\ op = "none"
  /\ nfix = 0
  /\ arg = <<>>
  /\ ret = "None"
  /\ err = "none"
  /\ Idle
  /\ \E g \in Grids :
        /\ lon = g[1]
        /\ lat = g[2]

NextGrid ==
  \/ longitude_fix
  \/ collect_region_wspd
  \/ collect_region_wspdwdir
  \/ nc_to_tiff

SpecGrid == InitGrid /\ [][NextGrid]_vars

\* ------------------------------------------------------------ buoy_within
\* the buoy's position record: one longitude and one latitude per time step,
\* NaN where the position is missing
BuoyLonVals == {NaN, 0, 5, 70}
BuoyLatVals == {NaN, 50, 60, 70}
BuoyBoxes == Boxes \cup {<<60, 80, 50, 60>>}

SeqsOf(S, n) == [1..n -> S]

RECURSIVE NanSum(_)
NanSum(s) ==
  IF s = <<>> THEN 0
  ELSE (IF Head(s) = NaN THEN 0 ELSE Head(s)) + NanSum(Tail(s))

NanCount(s) == Cardinality({k \in 1..Len(s) : s[k] # NaN})

\* np.nanmean(a, axis=0) of a 1-D array, as the exact fraction num/den;
\* den = 0 is the NaN that the mean of no sample gives
NanMean(s) == [num |-> NanSum(s), den |-> NanCount(s)]

\* mean >= b and mean <= b; every comparison with NaN is False
MeanGe(m, b) == m.den > 0 /\ m.num >= m.den * b
MeanLe(m, b) == m.den > 0 /\ m.num <= m.den * b

BuoyWithin(blon, blat, coords) ==
  LET lonb == NanMean(blon)
      latb == NanMean(blat)
  IN  /\ MeanGe(lonb, coords[1])
      /\ MeanLe(lonb, coords[2])
      /\ MeanGe(latb, coords[3])
      /\ MeanLe(lonb, coords[4])

buoy_within ==
  /\ op = "none"
  /\ \E coords \in BuoyBoxes :
        /\ arg' = [lon |-> lon, lat |-> lat, coords |-> coords]
        /\ ret' = BuoyWithin(lon, lat, coords)
  /\ op' = "buoy_within"
  /\ err' = "none"
  /\ UNCHANGED <<lon, lat, nfix, others>>

InitBuoy ==
  /\ op = "none"
  /\ nfix = 0
  /\ arg = <<>>
  /\ ret = "None"
  /\ err = "none"
  /\ Idle
  /\ \E n \in 1..MaxBuoySamples :
        /\ lon \in SeqsOf(BuoyLonVals, n)
        /\ lat \in SeqsOf(BuoyLatVals, n)

NextBuoy == buoy_within

SpecBuoy == InitBuoy /\ [][NextBuoy]_vars

\* -------------------------------------------------------- wind kinematics
\* 1000 * sin(a degrees), a = 0..90, rounded to the nearest integer
SinTab ==
  <<
     0, 17, 35, 52, 70, 87, 105, 122, 139, 156, 174, 191, 208,
     225, 242, 259, 276, 292, 309, 326, 342, 358, 375, 391, 407, 423,
     438, 454, 469, 485, 500, 515, 530, 545, 559, 574, 588, 602, 616,
     629, 643, 656, 669, 682, 695, 707, 719, 731, 743, 755, 766, 777,
     788, 799, 809, 819, 829, 839, 848, 857, 866, 875, 883, 891, 899,
     906, 914, 921, 927, 934, 940, 946, 951, 956, 961, 966, 970, 974,
     978, 982, 985, 988, 990, 993, 995, 996, 998, 999, 999, 1000, 1000
  >>

Abs(x) == IF x < 0 THEN -x ELSE x

\* a / n rounded to the nearest integer (n > 0)
RoundDiv(a, n) == (2 * a + n) \div (2 * n)

\* 1000 * np.sin(d*np.pi/180) and 1000 * np.cos(d*np.pi/180), d in degrees
SinDeg(d) ==
  LET m == d % 360
  IN  IF m <= 90 THEN SinTab[m + 1]
      ELSE IF m <= 180 THEN SinTab[181 - m]
      ELSE IF m <= 270 THEN -SinTab[m - 179]
      ELSE -SinTab[361 - m]

CosDeg(d) == SinDeg(d + 90)

\* variant: u without the sign change
WindUNoSign(s, d) == s * SinDeg(d)

\* u = wspd*sindir*(-1), v = wspd*cosdir*(-1), in units of 0.001 m/s
WindU(s, d) == s * SinDeg(d) * (-1)

\* variant: v with a sum in place of the product
WindVSum(s, d) == s + CosDeg(d) * (-1)

WindV(s, d) == s * CosDeg(d) * (-1)

WindComponents(wspd, wdir) ==
  << [k \in 1..Len(wdir) |-> WindU(wspd[k], wdir[k])],
     [k \in 1..Len(wdir) |-> WindV(wspd[k], wdir[k])] >>

\* np.arctan2(v, u)*rtod to the nearest degree, in -179..180.  The angle a in
\* 0..90 of (|u|, |v|) is where |v| cos a - |u| sin a changes sign; the signs
\* of u and v give the quadrant.
FirstQuadrantDeg(x, y) ==
  Cardinality({a \in 0..89 :
     (y * CosDeg(a) - x * SinDeg(a)) + (y * CosDeg(a + 1) - x * SinDeg(a + 1)) > 0})

Atan2Deg(v, u) ==
  LET a == FirstQuadrantDeg(Abs(u), Abs(v))
  IN  IF v >= 0 THEN (IF u >= 0 THEN a ELSE 180 - a)
      ELSE (IF u >= 0 THEN -a ELSE a - 180)

\* variant: 360 itself is not reduced
Wrap360Above(w) == IF w > 360 THEN w - 360 ELSE w

\* wdir[np.where(wdir >= 360)] -= 360
Wrap360(w) == IF w >= 360 THEN w - 360 ELSE w

WindDirectionFromUV(u, v) ==
  [k \in 1..Len(u) |-> Wrap360(270 - Atan2Deg(v[k], u[k]))]

WindSpeeds == {-10, 0, 1, 10}
WindDirs == (-360)..720
\* (u, v) pairs not produced by wind_components, in units of 0.001 m/s
UVVals == {-2000, -1, 0, 1, 2000}

wind_components ==
  /\ op = "none"
  /\ \E s \in WindSpeeds, d \in WindDirs :
     \E in \in {[wspd |-> <<s>>, wdir |-> <<d>>],
                [wspd |-> <<s, s>>, wdir |-> <<d, d + 135>>]} :
        /\ arg' = in
        /\ ret' = WindComponents(in.wspd, in.wdir)
  /\ op' = "wind_components"
  /\ err' = "none"
  /\ UNCHANGED <<lon, lat, nfix, others>>

wind_direction_from_uv ==
  /\ op \in {"none", "wind_components"}
  /\ \E in \in IF op = "wind_components"
               THEN {[u |-> ret[1], v |-> ret[2], of |-> arg]}
               ELSE {[u |-> <<a>>, v |-> <<b>>, of |-> <<>>] : a \in UVVals, b \in UVVals} :
        /\ arg' = in
        /\ ret' = WindDirectionFromUV(in.u, in.v)
  /\ op' = "wind_direction_from_uv"
  /\ err' = "none"
  /\ UNCHANGED <<lon, lat, nfix, others>>

\* ---------------------------------------------------- wind_direction_std
\* np.nanmean of 1000*f(direction) over the samples that are not NaN
RECURSIVE TrigSum(_, _)
TrigSum(s, shift) ==
  IF s = <<>> THEN 0
  ELSE (IF Head(s) = NaN THEN 0 ELSE SinDeg(Head(s) + shift)) + TrigSum(Tail(s), shift)

\* variant: np.mean, which a single NaN turns into NaN
TrigMeanPropagate(s, shift) ==
  IF NanCount(s) < Len(s) THEN NaN ELSE RoundDiv(TrigSum(s, shift), Len(s))

TrigNanMean(s, shift) ==
  IF NanCount(s) = 0 THEN NaN ELSE RoundDiv(TrigSum(s, shift), NanCount(s))

\* 10^6 * (1 - sa^2 - ca^2)
Radicand(sa, ca) == 1000000 - sa * sa - ca * ca

\* 1000 * np.sqrt(r / 10^6) to the nearest integer; NaN for r < 0
Sqrt(r) ==
  IF r < 0 THEN NaN
  ELSE IF r = 0 THEN 0
  ELSE CHOOSE e \in 0..1000 : e * e - e < r /\ r <= e * e + e

\* arcsin(e / 1000) to the nearest degree, e in 0..1000
ArcSinDeg(e) ==
  Cardinality({a \in 0..89 : SinTab[a + 1] + SinTab[a + 2] <= 2 * e})

\* 1000 * np.arcsin(e / 1000), in radians
ArcSin(e) == RoundDiv(ArcSinDeg(e) * 17453, 1000)

\* 10000 * (1 + 0.1547*eps^3)
Yamartino(e) == 10000 + RoundDiv(1547 * RoundDiv(e * e * e, 1000000), 1000)

Epsilon(wdir) ==
  LET sa == TrigNanMean(wdir, 0)
      ca == TrigNanMean(wdir, 90)
  IN  IF sa = NaN \/ ca = NaN THEN NaN ELSE Sqrt(Radicand(sa, ca))

\* the value returned, times 1000
WindDirectionStd(wdir) ==
  LET eps == Epsilon(wdir)
  IN  IF eps = NaN THEN NaN ELSE RoundDiv(ArcSin(eps) * Yamartino(eps), 10000)

DirSamples == {NaN, 0, 1, 90, 180, 270}

wind_direction_std ==
  /\ op = "none"
  /\ \E n \in 1..MaxDirSamples :
     \E wdir \in SeqsOf(DirSamples, n) :
        /\ arg' = [wdir |-> wdir]
        /\ ret' = WindDirectionStd(wdir)
  /\ op' = "wind_direction_std"
  /\ err' = "none"
  /\ UNCHANGED <<lon, lat, nfix, others>>

InitWind ==
  /\ op = "none"
  /\ nfix = 0
  /\ arg = <<>>
  /\ ret = "None"
  /\ err = "none"
  /\ Idle
  /\ lon = <<>>
  /\ lat = <<>>

NextWind ==
  \/ wind_components
  \/ wind_direction_from_uv
  \/ wind_direction_std

SpecWind == InitWind /\ [][NextWind]_vars

\* ------------------------------------------------------------------- time
\* days from 1970-01-01 to year-month-day in the proleptic Gregorian
\* calendar of dt.datetime, and back
DaysFromCivil(year, month, day) ==
  LET y == IF month <= 2 THEN year - 1 ELSE year
      era == y \div 400
      yoe == y - era * 400
      mp == IF month > 2 THEN month - 3 ELSE month + 9
      doy == ((153 * mp + 2) \div 5) + day - 1
      doe == yoe * 365 + (yoe \div 4) - (yoe \div 100) + doy
  IN  era * 146097 + doe - 719468

CivilFromDays(days) ==
  LET z == days + 719468
      era == z \div 146097
      doe == z - era * 146097
      yoe == (doe - (doe \div 1460) + (doe \div 36524) - (doe \div 146096)) \div 365
      doy == doe - (365 * yoe + (yoe \div 4) - (yoe \div 100))
      mp == (5 * doy + 2) \div 153
      d == doy - ((153 * mp + 2) \div 5) + 1
      m == IF mp < 10 THEN mp + 3 ELSE mp - 9
      y == yoe + era * 400 + (IF m <= 2 THEN 1 ELSE 0)
  IN  [year |-> y, month |-> m, day |-> d]

\* dt.timedelta(days=NaN) raises ValueError; the loop stops at the first one
TimedeltaError(t) ==
  IF \E i \in 1..Len(t) : t[i] = NaN THEN "ValueError" ELSE "none"

\* variant: every sample takes the first elapsed time
TimeSecondsFirstOnly(t, year, month, day) ==
  [i \in 1..Len(t) |-> DaysFromCivil(year, month, day) * 86400 + t[1]]

\* a datetime64[s] is a count of seconds since 1970-01-01T00:00:00.
\* date0 + dt.timedelta(days=t/(24.0*3600.0)) for t a whole number of seconds
TimeSecondsToDatetime64(t, year, month, day) ==
  [i \in 1..Len(t) |-> DaysFromCivil(year, month, day) * 86400 + t[i]]

Digits == <<"0", "1", "2", "3", "4", "5", "6", "7", "8", "9">>

Digit(n) == Digits[n + 1]

Pad2(n) == <<Digit((n \div 10) % 10), Digit(n % 10)>>

Pad4(n) == <<Digit((n \div 1000) % 10), Digit((n \div 100) % 10)>> \o Pad2(n)

\* str() of a datetime64[s]: YYYY-MM-DDTHH:MM:SS, one character per element
Datetime64Str(ts) ==
  LET date == CivilFromDays(ts \div 86400)
      sec == ts % 86400
  IN  Pad4(date.year) \o <<"-">> \o Pad2(date.month) \o <<"-">> \o Pad2(date.day)
      \o <<"T">> \o Pad2(sec \div 3600) \o <<":">> \o Pad2((sec \div 60) % 60)
      \o <<":">> \o Pad2(sec % 60)

\* str.split(sep): the pieces of s between the occurrences of sep
RECURSIVE Split(_, _)
Split(s, sep) ==
  IF \A k \in 1..Len(s) : s[k] # sep THEN <<s>>
  ELSE LET k == CHOOSE j \in 1..Len(s) : s[j] = sep /\ \A h \in 1..(j - 1) : s[h] # sep
       IN  <<SubSeq(s, 1, k - 1)>> \o Split(SubSeq(s, k + 1, Len(s)), sep)

\* variant: the seconds taken in place of the minutes
JoinPiecesSlip(d1, d2) == d1[1] \o d1[2] \o d2[1] \o d2[3] \o d2[3]

\* d1 = str(dates0[i]).split('-'); d2 = d1[-1].split(':');
\* d1[0]+d1[1]+d2[0]+d2[1]+d2[2]
JoinPieces(d1, d2) == d1[1] \o d1[2] \o d2[1] \o d2[2] \o d2[3]

TimeDatetime64ToString(dates0) ==
  [i \in 1..Len(dates0) |->
     LET d1 == Split(Datetime64Str(dates0[i]), "-")
         d2 == Split(d1[Len(d1)], ":")
     IN  JoinPieces(d1, d2)]

RefDates == {<<2020, 1, 1>>, <<2020, 2, 28>>, <<1999, 12, 31>>, <<1969, 12, 31>>}
ElapsedSeconds == {NaN, -1, 0, 1, 59, 3599, 86399, 86400, 2678461}

time_seconds_to_datetime64 ==
  /\ op = "none"
  /\ \E ref \in RefDates :
     \E n \in 1..MaxTimes :
     \E t \in SeqsOf(ElapsedSeconds, n) :
        /\ arg' = [t |-> t, year |-> ref[1], month |-> ref[2], day |-> ref[3]]
        /\ err' = TimedeltaError(t)
        /\ ret' = IF TimedeltaError(t) = "none"
                  THEN TimeSecondsToDatetime64(t, ref[1], ref[2], ref[3])
                  ELSE <<>>
  /\ op' = "time_seconds_to_datetime64"
  /\ UNCHANGED <<lon, lat, nfix, others>>

time_datetime64_to_string ==
  /\ op = "time_seconds_to_datetime64"
  /\ err = "none"
  /\ arg' = [dates0 |-> ret, of |-> arg]
  /\ ret' = TimeDatetime64ToString(ret)
  /\ op' = "time_datetime64_to_string"
  /\ err' = "none"
  /\ UNCHANGED <<lon, lat, nfix, others>>

InitTime ==
  /\ op = "none"
  /\ nfix = 0
  /\ arg = <<>>
  /\ ret = "None"
  /\ err = "none"
  /\ Idle
  /\ lon = <<>>
  /\ lat = <<>>

NextTime ==
  \/ time_seconds_to_datetime64
  \/ time_datetime64_to_string

SpecTime == InitTime /\ [][NextTime]_vars

\* ------------------------------------------- helpers called in sequence
\* mem holds the caller's arrays by name.  A helper is called with some of
\* them as its arguments; an argument is the caller's array itself, so a
\* subscript assignment to it inside the helper is seen by the caller.
Store(m, name, value) == IF name \in DOMAIN m THEN [m EXCEPT ![name] = value] ELSE m

\* lon[indl] = lon[indl]-360 writes to the argument lon
LongitudeFixTarget == "lon"

\* variant: the result array is the argument u
FromUVTargetAliased == "u"

\* wdir[ind360] = wdir[ind360] - 360 writes to the local wdir, the new array
\* that 270-(np.arctan2(v,u)*rtod) made; it is none of the caller's arrays
FromUVTarget == "local wdir"

call_longitude_fix ==
  /\ op' = "longitude_fix"
  /\ arg' = <<"lon">>
  /\ ret' = "None"
  /\ err' = "none"
  /\ mem' = Store(mem, LongitudeFixTarget, LongitudeFix(mem.lon))
  /\ UNCHANGED <<lon, lat, nfix, tiff, wps>>

call_wind_components ==
  /\ op' = "wind_components"
  /\ arg' = <<"s", "d">>
  /\ ret' = WindComponents(mem.s, mem.d)
  /\ err' = "none"
  /\ mem' = mem
  /\ UNCHANGED <<lon, lat, nfix, tiff, wps>>

call_wind_direction_from_uv ==
  LET wdir == WindDirectionFromUV(mem.u, mem.v)
  IN
  /\ op' = "wind_direction_from_uv"
  /\ arg' = <<"u", "v">>
  /\ ret' = wdir
  /\ err' = "none"
  /\ mem' = Store(mem, FromUVTarget, wdir)
  /\ UNCHANGED <<lon, lat, nfix, tiff, wps>>

call_wind_direction_std ==
  /\ op' = "wind_direction_std"
  /\ arg' = <<"d">>
  /\ ret' = WindDirectionStd(mem.d)
  /\ err' = "none"
  /\ mem' = mem
  /\ UNCHANGED <<lon, lat, nfix, tiff, wps>>

call_collect_region_wspd ==
  /\ op' = "collect_region_wspd"
  /\ arg' = <<"lon", "lat", "wspd", "coords">>
  /\ ret' = CollectRegionWspd(mem.lon, mem.lat, mem.wspd, mem.coords)
  /\ err' = "none"
  /\ mem' = mem
  /\ UNCHANGED <<lon, lat, nfix, tiff, wps>>

call_collect_region_wspdwdir ==
  /\ op' = "collect_region_wspdwdir"
  /\ arg' = <<"lon", "lat", "wspd", "wdir", "coords">>
  /\ ret' = CollectRegionWspdWdir(mem.lon, mem.lat, mem.wspd, mem.wdir, mem.coords)
  /\ err' = "none"
  /\ mem' = mem
  /\ UNCHANGED <<lon, lat, nfix, tiff, wps>>

call_buoy_within ==
  /\ op' = "buoy_within"
  /\ arg' = <<"blon", "blat", "coords">>
  /\ ret' = BuoyWithin(mem.blon, mem.blat, mem.coords)
  /\ err' = "none"
  /\ mem' = mem
  /\ UNCHANGED <<lon, lat, nfix, tiff, wps>>

call_time_seconds_to_datetime64 ==
  /\ op' = "time_seconds_to_datetime64"
  /\ arg' = <<"t">>
  /\ ret' = IF TimedeltaError(mem.t) = "none" THEN TimeSecondsToDatetime64(mem.t, 2020, 1, 1) ELSE <<>>
  /\ err' = TimedeltaError(mem.t)
  /\ mem' = mem
  /\ UNCHANGED <<lon, lat, nfix, tiff, wps>>

FrameSeries ==
  {[s |-> <<10, 0>>, d |-> <<45, 200>>, u |-> <<0, 1000>>, v |-> <<-2000, 1000>>,
    t |-> <<0, 86400>>, blon |-> <<0, NaN>>, blat |-> <<50, 60>>],
   [s |-> <<1>>, d |-> <<NaN>>, u |-> <<-1>>, v |-> <<0>>,
    t |-> <<-1, NaN>>, blon |-> <<5>>, blat |-> <<70>>]}

InitFrame ==
  /\ op = "none"
  /\ nfix = 0
  /\ arg = <<>>
  /\ ret = "None"
  /\ err = "none"
  /\ lon = <<>>
  /\ lat = <<>>
  /\ tiff = <<>>
  /\ wps = <<>>
  /\ \E g \in Grids, f \in FrameSeries, coords \in {<<-10, 10, 50, 60>>, <<0, 0, 60, 50>>} :
        mem = [lon |-> g[1], lat |-> g[2],
               wspd |-> RampField(NRows(g[1]), NCols(g[1])),
               wdir |-> DirField(NRows(g[1]), NCols(g[1])),
               coords |-> coords,
               s |-> f.s, d |-> f.d, u |-> f.u, v |-> f.v, t |-> f.t,
               blon |-> f.blon, blat |-> f.blat]

NextFrame ==
  \/ call_longitude_fix
  \/ call_wind_components
  \/ call_wind_direction_from_uv
  \/ call_wind_direction_std
  \/ call_collect_region_wspd
  \/ call_collect_region_wspdwdir
  \/ call_buoy_within
  \/ call_time_seconds_to_datetime64

SpecFrame == InitFrame /\ [][NextFrame]_vars

\* ------------------------------------------------------ the WPS processes
\* wps is one process instance: its class, self.output_dir as the framework
\* set it for the request served, the attribute get_command assigns
\* (self.outdir, self.sen1_dir; <<>> while the instance has no such
\* attribute), self.query, the directories mkdir_p made, the command the last
\* get_command returned and the data of output_dir in the response of the
\* last set_output.  A path is the sequence of its components.
OutputDirs == {<<"out1">>, <<"out2">>, <<"out3">>}

ZipFiles == {"a.zip", "b.zip"}

Dates == {"2018-01-01", "2018-02-01"}

\* variant: the output directory itself
OutDirBase(output_dir) == output_dir

\* os.path.join(self.output_dir, "TiffExample")
OutDir(output_dir) == Append(output_dir, "TiffExample")

\* self.sen1_dir = '/data_service/'
Sen1Dir == <<"/data_service/">>

\* the path under which the other services of the workflow read the directory
WorkflowDiskPath(path) == <<"workflow">> \o path

\* reading an attribute that was never assigned raises AttributeError
HasAttr(value) == value # <<>>

CreateTiff_get_command ==
  /\ wps.class = "CreateTiff"
  /\ \E d \in OutputDirs, z \in ZipFiles :
        /\ arg' = [zipfile |-> z, output_dir |-> d]
        /\ wps' = [wps EXCEPT !.output_dir = d,
                              !.outdir = OutDir(d),
                              !.made = @ \cup {OutDir(d)},
                              !.command = <<"bash", "-x", "run_nc2tiff.sh", z, OutDir(d)>>]
        /\ ret' = <<"bash", "-x", "run_nc2tiff.sh", z, OutDir(d)>>
  /\ op' = "get_command"
  /\ err' = "none"
  /\ UNCHANGED <<lon, lat, nfix, mem, tiff>>

CreateTiff_set_output ==
  /\ wps.class = "CreateTiff"
  /\ op' = "set_output"
  /\ arg' = <<>>
  /\ ret' = <<>>
  /\ err' = IF HasAttr(wps.outdir) THEN "none" ELSE "AttributeError"
  /\ wps' = [wps EXCEPT !.reported = IF HasAttr(wps.outdir)
                                     THEN WorkflowDiskPath(wps.outdir) ELSE <<>>]
  /\ UNCHANGED <<lon, lat, nfix, mem, tiff>>

SentinelDownload_get_command ==
  /\ wps.class = "SentinelDownload"
  /\ \E d \in OutputDirs, s \in Dates, e \in Dates :
        /\ arg' = [start_date |-> s, end_date |-> e, output_dir |-> d]
        /\ wps' = [wps EXCEPT !.output_dir = d,
                              !.outdir = Sen1Dir,
                              !.query = <<"producttype=OCN">>,
                              !.command = <<"sentinel", "search", "--sentinel1", "-d",
                                            "-s", s, "-e", e, "-q", "producttype=OCN",
                                            "-p", Sen1Dir, "user", "password",
                                            "search_polygon">>]
        /\ ret' = <<"sentinel", "search", "--sentinel1", "-d",
                    "-s", s, "-e", e, "-q", "producttype=OCN",
                    "-p", Sen1Dir, "user", "password", "search_polygon">>
  /\ op' = "get_command"
  /\ err' = "none"
  /\ UNCHANGED <<lon, lat, nfix, mem, tiff>>

SentinelDownload_set_output ==
  /\ wps.class = "SentinelDownload"
  /\ op' = "set_output"
  /\ arg' = <<>>
  /\ ret' = <<>>
  /\ err' = IF HasAttr(wps.outdir) THEN "none" ELSE "AttributeError"
  /\ wps' = [wps EXCEPT !.reported = IF HasAttr(wps.outdir)
                                     THEN WorkflowDiskPath(wps.outdir) ELSE <<>>]
  /\ UNCHANGED <<lon, lat, nfix, mem, tiff>>

InitWps ==
  /\ op = "none"
  /\ nfix = 0
  /\ arg = <<>>
  /\ ret = <<>>
  /\ err = "none"
  /\ lon = <<>>
  /\ lat = <<>>
  /\ mem = <<>>
  /\ tiff = <<>>
  /\ \E c \in {"CreateTiff", "SentinelDownload"}, d \in OutputDirs :
        wps = [class |-> c, output_dir |-> d, outdir |-> <<>>, query |-> <<>>,
               made |-> {}, command |-> <<>>, reported |-> <<>>]

NextWps ==
  \/ CreateTiff_get_command
  \/ CreateTiff_set_output
  \/ SentinelDownload_get_command
  \/ SentinelDownload_set_output

SpecWps == InitWps /\ [][NextWps]_vars

\* ================================================================ claims
Cells(a) == {<<r, c>> : r \in 1..NRows(a), c \in 1..NCols(a)}

\* C3 (as stated): after longitude_fix every longitude lies in (-180, 180],
\* and a second longitude_fix changes nothing
C3_IdempotentAllInputs ==
  [][op' = "longitude_fix" =>
       /\ \A p \in Cells(lon') : lon'[p[1]][p[2]] > -180 /\ lon'[p[1]][p[2]] <= 180
       /\ (op = "longitude_fix" => lon' = lon)]_vars

\* C3 (amended): for every longitude x with -180 < x <= 540, longitude_fix(x)
\* lies in (-180, 180] and longitude_fix(longitude_fix(x)) = longitude_fix(x)
C3_IdempotentInDomain ==
  [][op' = "longitude_fix" =>
       \A p \in Cells(lon') :
          /\ (arg'.lon[p[1]][p[2]] > -180 /\ arg'.lon[p[1]][p[2]] <= 540)
                => (lon'[p[1]][p[2]] > -180 /\ lon'[p[1]][p[2]] <= 180)
          /\ (op = "longitude_fix" /\ arg.lon[p[1]][p[2]] > -180
                                   /\ arg.lon[p[1]][p[2]] <= 540)
                => lon'[p[1]][p[2]] = lon[p[1]][p[2]]]_vars

\* a longitude of 355 was wrapped to -5 and longitude_fix was applied again
C3_Witness ==
  /\ op = "longitude_fix"
  /\ nfix = 2
  /\ lon # EmptyArray
  /\ lon[1][1] = -5
  /\ arg.lon[1][1] = -5

\* C8: collect_region_wspd returns one value per cell of the closed box
\* lon1 <= lon <= lon2, lat1 <= lat <= lat2, none for any other cell, in
\* row order; one cell in the box gives one value, the field at that cell
C8_Inside(a) ==
  {p \in Cells(a.lon) :
      /\ a.coords[1] <= a.lon[p[1]][p[2]]
      /\ a.lon[p[1]][p[2]] <= a.coords[2]
      /\ a.coords[3] <= a.lat[p[1]][p[2]]
      /\ a.lat[p[1]][p[2]] <= a.coords[4]}

C8_ClosedBoxSelection ==
  op = "collect_region_wspd" =>
     /\ Len(ret) = Cardinality(C8_Inside(arg))
     /\ \A k \in 1..Len(ret) : \E p \in C8_Inside(arg) : ret[k] = arg.wspd[p[1]][p[2]]
     /\ \A p \in C8_Inside(arg) : \E k \in 1..Len(ret) : ret[k] = arg.wspd[p[1]][p[2]]
     /\ (arg.wspd = RampField(NRows(arg.lon), NCols(arg.lon)) =>
            \A k \in 1..(Len(ret) - 1) : ret[k] < ret[k + 1])
     /\ \A p \in C8_Inside(arg) :
            C8_Inside(arg) = {p} => ret = <<arg.wspd[p[1]][p[2]]>>

\* exactly one cell of a 2 x 2 grid is in the box, and it lies on the box's
\* upper longitude bound and lower latitude bound
C8_Witness ==
  /\ op = "collect_region_wspd"
  /\ Cardinality(Cells(arg.lon)) = 4
  /\ Len(ret) = 1
  /\ \E p \in Cells(arg.lon) :
        /\ arg.lon[p[1]][p[2]] = arg.coords[2]
        /\ arg.lat[p[1]][p[2]] = arg.coords[3]
        /\ ret[1] = arg.wspd[p[1]][p[2]]

\* C9: collect_region_wspdwdir returns two arrays of equal length whose k-th
\* entries are the speed and the direction of one and the same cell, in the
\* cell order of the single-field selection
C9_PairedSelection ==
  op = "collect_region_wspdwdir" =>
     /\ Len(ret[1]) = Len(ret[2])
     /\ \A k \in 1..Len(ret[1]) :
           \E p \in C8_Inside(arg) :
              /\ ret[1][k] = arg.wspd[p[1]][p[2]]
              /\ ret[2][k] = arg.wdir[p[1]][p[2]]
     /\ ret[1] = CollectRegionWspd(arg.lon, arg.lat, arg.wspd, arg.coords)
     /\ ret[2] = CollectRegionWspd(arg.lon, arg.lat, arg.wdir, arg.coords)

\* two cells are selected, the second of them on the box's upper longitude bound
C9_Witness ==
  /\ op = "collect_region_wspdwdir"
  /\ Len(ret[1]) = 2
  /\ ret[1][1] # ret[1][2]
  /\ \E p \in Cells(arg.lon) :
        /\ arg.lon[p[1]][p[2]] = arg.coords[2]
        /\ ret[1][2] = arg.wspd[p[1]][p[2]]
        /\ ret[2][2] = arg.wdir[p[1]][p[2]]

\* C10: the four ground control points are pixel (0,0) -> last row, first
\* column; (nx,0) -> last row, last column; (0,ny) -> first row, first column;
\* (nx,ny) -> first row, last column, with nx = ncols-1, ny = nrows-1 and
\* elevation 0; the 2 x 2 scenario gives (0,0)->(0,0), (1,0)->(1,0),
\* (0,1)->(0,1), (1,1)->(1,1)
C10_CornerGcps ==
  op = "nc_to_tiff" =>
     LET nr == Len(arg.lon)
         nc == Len(arg.lon[1])
     IN  /\ ret[1] = <<0, 0, arg.lon[nr][1], arg.lat[nr][1], 0>>
         /\ ret[2] = <<nc - 1, 0, arg.lon[nr][nc], arg.lat[nr][nc], 0>>
         /\ ret[3] = <<0, nr - 1, arg.lon[1][1], arg.lat[1][1], 0>>
         /\ ret[4] = <<nc - 1, nr - 1, arg.lon[1][nc], arg.lat[1][nc], 0>>
         /\ Len(ret) = 4
         /\ (arg.lon = ExampleLon /\ arg.lat = ExampleLat =>
               ret = << <<0, 0, 0, 0, 0>>, <<1, 0, 1, 0, 0>>,
                        <<0, 1, 0, 1, 0>>, <<1, 1, 1, 1, 0>> >>)

\* the corners of the 2 x 2 scenario grid have been extracted
C10_Witness ==
  /\ op = "nc_to_tiff"
  /\ arg.lon = ExampleLon
  /\ arg.lat = ExampleLat
  /\ ret[1][4] # ret[3][4]

\* C1: buoy_within returns True exactly when the NaN-ignoring mean longitude
\* lies in [lon1, lon2] and the NaN-ignoring mean latitude lies in
\* [lat1, lat2], the closed-box test that region selection applies to a cell
C1_MeanPositionInBox ==
  op = "buoy_within" =>
     LET n == NanCount(arg.lon)
         m == NanCount(arg.lat)
         inbox == /\ n > 0
                  /\ m > 0
                  /\ n * arg.coords[1] <= NanSum(arg.lon)
                  /\ NanSum(arg.lon) <= n * arg.coords[2]
                  /\ m * arg.coords[3] <= NanSum(arg.lat)
                  /\ NanSum(arg.lat) <= m * arg.coords[4]
     IN  ret = inbox

\* C4: wind_direction_std returns asin(eps)*(1 + 0.1547 eps^3) in degrees
\* (to a tenth of a degree); [0, 90, 180, 270] gives about 103.9
C4_StdInDegrees ==
  op = "wind_direction_std" /\ ret # NaN =>
     LET eps == Epsilon(arg.wdir)
         deg == RoundDiv(ArcSinDeg(eps) * 1000 * Yamartino(eps), 10000)
     IN  /\ Abs(ret - deg) <= 100
         /\ (arg.wdir = <<0, 90, 180, 270>> => Abs(ret - 103900) <= 100)

\* C5: in wind_direction_std the radicand is clamped at 0, so a series with
\* at least one sample never gives NaN, and a negative radicand gives 0
C5_RadicandClamped ==
  op = "wind_direction_std" /\ NanCount(arg.wdir) > 0 =>
     /\ ret # NaN
     /\ (Radicand(TrigNanMean(arg.wdir, 0), TrigNanMean(arg.wdir, 90)) < 0 => ret = 0)

\* C6: every direction wind_direction_from_uv returns lies in [0, 360): it is
\* the raw value 270 - atan2(v, u), reduced by 360 exactly when that is >= 360
C6_DirectionInRange ==
  op = "wind_direction_from_uv" =>
     \A k \in 1..Len(ret) :
        LET raw == 270 - Atan2Deg(arg.v[k], arg.u[k])
        IN  /\ 0 <= ret[k]
            /\ ret[k] < 360
            /\ ret[k] \in {raw, raw - 360}
            /\ (ret[k] = raw - 360 <=> raw >= 360)

\* the raw value was exactly 360 and was reduced to 0; another was below 360
C6_Witness ==
  /\ op = "wind_direction_from_uv"
  /\ Len(ret) = 2
  /\ arg.u[1] = 0
  /\ arg.v[1] < 0
  /\ ret[1] = 0
  /\ ret[2] = 135

\* C7: for speed s > 0 and direction d, wind_direction_from_uv applied to
\* wind_components(s, d) returns d modulo 360; speed 10, direction 45 gives
\* (u, v) about (-7.071, -7.071) and maps back to 45
C7_RoundTrip ==
  op = "wind_direction_from_uv" /\ arg.of # <<>> =>
     \A k \in 1..Len(ret) :
        /\ arg.of.wspd[k] > 0 => ret[k] = arg.of.wdir[k] % 360
        /\ (arg.of.wspd[k] = 10 /\ arg.of.wdir[k] = 45) =>
              /\ Abs(arg.u[k] + 7071) <= 1
              /\ Abs(arg.v[k] + 7071) <= 1
              /\ ret[k] = 45

\* speed 10 from direction 45 was decomposed and mapped back
C7_Witness ==
  /\ op = "wind_direction_from_uv"
  /\ arg.of # <<>>
  /\ arg.of.wspd = <<10>>
  /\ arg.of.wdir = <<45>>
  /\ ret = <<45>>

IsDigit(ch) == \E n \in 1..10 : Digits[n] = ch

\* the number written by the digits s[a..b]
RECURSIVE DigitsValue(_, _, _)
DigitsValue(s, a, b) ==
  IF b < a THEN 0
  ELSE 10 * DigitsValue(s, a, b - 1) + ((CHOOSE n \in 1..10 : Digits[n] = s[b]) - 1)

\* C2 (as stated): every timestamp is rendered as 14 characters, all digits,
\* with no separator; seconds_to_datetime([0], 2020, 1, 1) gives 20200101000000
C2_FourteenDigits ==
  op = "time_datetime64_to_string" =>
     \A i \in 1..Len(ret) :
        /\ Len(ret[i]) = 14
        /\ \A k \in 1..Len(ret[i]) : IsDigit(ret[i][k])
        /\ (arg.of.t[i] = 0 /\ arg.of.year = 2020 /\ arg.of.month = 1 /\ arg.of.day = 1)
              => ret[i] = <<"2", "0", "2", "0", "0", "1", "0", "1",
                            "0", "0", "0", "0", "0", "0">>

\* C2 (amended): every second-resolution timestamp of the years 0001..9999 is
\* rendered as the 15 characters YYYYMMDDTHHMMSS: zero-padded digits with the
\* one letter T between date and time and no '-' or ':'; the timestamp of
\* seconds_to_datetime([0], 2020, 1, 1) is rendered as 20200101T000000
C2_CompactWithT ==
  op = "time_datetime64_to_string" =>
     \A i \in 1..Len(ret) :
        LET str == ret[i] IN
        /\ Len(str) = 15
        /\ \A k \in (1..8) \cup (10..15) : IsDigit(str[k])
        /\ str[9] = "T"
        /\ DaysFromCivil(DigitsValue(str, 1, 4), DigitsValue(str, 5, 6),
                         DigitsValue(str, 7, 8)) * 86400
             + DigitsValue(str, 10, 11) * 3600 + DigitsValue(str, 12, 13) * 60
             + DigitsValue(str, 14, 15) = arg.dates0[i]
        /\ DigitsValue(str, 5, 6) \in 1..12
        /\ DigitsValue(str, 7, 8) \in 1..31
        /\ DigitsValue(str, 10, 11) \in 0..23
        /\ DigitsValue(str, 12, 13) \in 0..59
        /\ DigitsValue(str, 14, 15) \in 0..59
        /\ (arg.of.t[i] = 0 /\ arg.of.year = 2020 /\ arg.of.month = 1 /\ arg.of.day = 1)
              => str = <<"2", "0", "2", "0", "0", "1", "0", "1", "T",
                         "0", "0", "0", "0", "0", "0">>

\* the timestamp of seconds_to_datetime([0, 2678461], 2020, 1, 1) was rendered:
\* 2020-01-01T00:00:00 and 2020-02-01T00:01:01
C2_Witness ==
  /\ op = "time_datetime64_to_string"
  /\ arg.of.t = <<0, 2678461>>
  /\ arg.of.year = 2020
  /\ arg.of.month = 1
  /\ arg.of.day = 1
  /\ ret[1][9] = "T"
  /\ ret[2] = <<"2", "0", "2", "0", "0", "2", "0", "1", "T",
                "0", "0", "0", "1", "0", "1">>

C12_InvertedBoxIsEmpty ==
  op = "buoy_within" /\ (arg.coords[1] > arg.coords[2] \/ arg.coords[3] > arg.coords[4])
     => ret = FALSE

\* C13: longitude_fix replaces every element > 180 by that element minus 360,
\* leaves every element <= 180 as it is, keeps the shape of the array, and
\* does nothing to an empty array
C13_ElementWise ==
  [][op' = "longitude_fix" =>
       /\ Len(lon') = Len(lon)
       /\ \A r \in 1..Len(lon) : Len(lon'[r]) = Len(lon[r])
       /\ \A p \in Cells(lon) :
             /\ lon[p[1]][p[2]] > 180 => lon'[p[1]][p[2]] = lon[p[1]][p[2]] - 360
             /\ lon[p[1]][p[2]] <= 180 => lon'[p[1]][p[2]] = lon[p[1]][p[2]]
       /\ (lon = EmptyArray => lon' = EmptyArray)
       /\ err' = "none"]_vars

\* of the row 175, 185 only the second element was reduced
C13_Witness ==
  /\ op = "longitude_fix"
  /\ nfix = 1
  /\ lon # EmptyArray
  /\ arg.lon[1] = <<175, 185>>
  /\ lon[1] = <<175, -175>>

\* the samples of s that are not NaN
C14_WithoutNaN(s) ==
  LET Test(x) == x # NaN
  IN  SelectSeq(s, Test)

\* C14: wind_direction_std raises nothing and ignores NaN samples: a series
\* gives what the same series without its NaN samples gives, and a series of
\* NaN samples only gives NaN
C14_NanIgnored ==
  op = "wind_direction_std" =>
     /\ err = "none"
     /\ (NanCount(arg.wdir) = 0 => ret = NaN)
     /\ (NanCount(arg.wdir) > 0 => ret = WindDirectionStd(C14_WithoutNaN(arg.wdir)))

\* 0 and 90 with a NaN between them give what 0 and 90 give
C14_Witness ==
  /\ op = "wind_direction_std"
  /\ arg.wdir = <<0, NaN, 90>>
  /\ ret = 828
  /\ err = "none"

\* C15: wind_components gives u = -speed*sin(direction), v = -speed*cos(direction),
\* the direction the wind blows from, clockwise from north: speed s from
\* north gives (0, -s), from east (-s, 0), from south (0, s), from west
\* (s, 0); a negative speed flips the sign of both components
C15_BlowingFrom ==
  op = "wind_components" =>
     \A k \in 1..Len(arg.wdir) :
        LET s == arg.wspd[k]
            d == arg.wdir[k] % 360
            u == ret[1][k]
            v == ret[2][k]
        IN  /\ (d = 0 => u = 0 /\ v = -1000 * s)
            /\ (d = 90 => u = -1000 * s /\ v = 0)
            /\ (d = 180 => u = 0 /\ v = 1000 * s)
            /\ (d = 270 => u = 1000 * s /\ v = 0)
            /\ (d \in 1..89 /\ s > 0 => u < 0 /\ v < 0)
            /\ (d \in 91..179 /\ s > 0 => u < 0 /\ v > 0)
            /\ (d \in 181..269 /\ s > 0 => u > 0 /\ v > 0)
            /\ (d \in 271..359 /\ s > 0 => u > 0 /\ v < 0)
            /\ u = -(s * SinDeg(d))
            /\ v = -(s * CosDeg(d))
            /\ (s < 0 => u = -WindU(-s, d) /\ v = -WindV(-s, d))

\* a speed of -10 from the east: the components of +10 from the east, flipped
C15_Witness ==
  /\ op = "wind_components"
  /\ arg.wspd = <<-10>>
  /\ arg.wdir = <<90>>
  /\ ret = << <<10000>>, <<0>> >>

\* C16: speed 0 gives the components (0, 0) whatever the direction
C16_ZeroSpeed ==
  op = "wind_components" =>
     \A k \in 1..Len(arg.wdir) :
        arg.wspd[k] = 0 => ret[1][k] = 0 /\ ret[2][k] = 0

\* speed 0 from directions 45 and 180
C16_Witness ==
  /\ op = "wind_components"
  /\ arg.wspd = <<0, 0>>
  /\ arg.wdir = <<45, 180>>
  /\ ret = << <<0, 0>>, <<0, 0>> >>

\* C17: no call of wind_components, wind_direction_from_uv, wind_direction_std,
\* collect_region_wspd, collect_region_wspdwdir, buoy_within or
\* time_seconds_to_datetime64 changes any of the caller's arrays, in whatever
\* order they are called; longitude_fix changes only its argument, and of it
\* only the elements greater than 180
C17_InputsNotMutated ==
  [][/\ op' # "longitude_fix" => mem' = mem
     /\ op' = "longitude_fix" =>
           /\ \A name \in DOMAIN mem \ {"lon"} : mem'[name] = mem[name]
           /\ Len(mem'.lon) = Len(mem.lon)
           /\ \A p \in Cells(mem.lon) :
                 mem.lon[p[1]][p[2]] <= 180 => mem'.lon[p[1]][p[2]] = mem.lon[p[1]][p[2]]]_vars

\* after longitude_fix had reduced 355 to -5, wind_direction_from_uv reduced
\* a direction of 360 to 0 in its result and u, v are as they were
C17_Witness ==
  /\ op = "wind_direction_from_uv"
  /\ ret = <<0, 225>>
  /\ mem.u = <<0, 1000>>
  /\ mem.v = <<-2000, 1000>>
  /\ mem.lon # EmptyArray
  /\ mem.lon[1][1] = -5

\* C18: when nc_to_tiff has ended, gdal_translate was run, then gdalwarp,
\* and ./tmp.tiff does not exist
C18_WarpRunTmpRemoved ==
  op = "nc_to_tiff" =>
     /\ \E i \in DOMAIN tiff, j \in DOMAIN tiff :
           /\ i < j
           /\ tiff[i] = [what |-> "run", subject |-> "gdal_translate"]
           /\ tiff[j] = [what |-> "run", subject |-> "gdalwarp"]
     /\ ~Exists(TmpTiff, tiff)

\* C19: set_output succeeds only after a get_command on the instance, and
\* then reports the workflow path of the directory of the most recent
\* get_command (CreateTiff: output_dir/TiffExample, which exists;
\* SentinelDownload: /data_service/); without a get_command before it,
\* set_output ends in AttributeError and reports no path
C19_SetOutputAfterGetCommand ==
  op = "set_output" =>
     IF wps.command = <<>>
     THEN /\ err = "AttributeError"
          /\ wps.reported = <<>>
     ELSE /\ err = "none"
          /\ wps.class = "CreateTiff" =>
                /\ wps.reported = <<"workflow">> \o wps.output_dir \o <<"TiffExample">>
                /\ wps.command[5] = wps.output_dir \o <<"TiffExample">>
                /\ wps.output_dir \o <<"TiffExample">> \in wps.made
          /\ wps.class = "SentinelDownload" =>
                /\ wps.reported = <<"workflow", "/data_service/">>
                /\ wps.command[12] = <<"/data_service/">>

\* set_output reported the directory of the second of two get_command calls
\* that used different output directories
C19_Witness ==
  /\ op = "set_output"
  /\ err = "none"
  /\ wps.class = "CreateTiff"
  /\ wps.reported = <<"workflow", "out2", "TiffExample">>
  /\ <<"out1", "TiffExample">> \in wps.made
  /\ Cardinality(wps.made) = 2

====
